---- MODULE Spec2Model ----
(***************************************************************************)
(* EncodeNexus: the node graph editor state (a Snarl of Nodes and wires),  *)
(* the node/prototype/control data model and engine::run, which orders the *)
(* graph with petgraph's toposort and runs every node's Lua behaviour.     *)
(***************************************************************************)
EXTENDS Integers, Sequences, FiniteSets, TLC

\* Bounds of the model.
MaxNodes == 3
MaxWires == 2
MaxLoaded == 2

VARIABLES
    REGISTRY,   \* script::REGISTRY: id -> prototype, filled by init_lua
    CATEGORY,   \* script::CATEGORY: the menu tree, path -> NodeEntry
    reg,        \* the last register_node call: arguments, outcome, state before
    snarl,      \* Snarl<Node> nodes: NodeId -> Node (prototype, data)
    wires,      \* Snarl wires in the iteration order of the wire HashSet
    pc,         \* "init" (init_lua), "create" (App::create), "update" (UI idle),
                \* "run" (engine::run), "exit" (the process has ended)
    loaded,     \* number of nodes deserialized by App::create
    persisted,  \* App::create: NodeId -> the {id, controls} being deserialized
    ord,        \* engine::run: the order returned by toposort
    graph,      \* engine::run: the DiGraph edges in insertion order
    inputs,     \* engine::run: node -> input table (created lazily)
    outputs,    \* tables returned by the behaviours invoked in this run
    invoked,    \* nodes whose behaviour has been invoked in this run
    result,     \* outcome of the last engine::run ("none" when there is none)
    pre,        \* snarl as it was when the current/last run began
    base,       \* snarl as it was before the first of the consecutive runs
    last,       \* input tables of the previous consecutive run, or "none"
    prev        \* the previous consecutive run: its start, order and end

vars == <<REGISTRY, CATEGORY, reg, snarl, wires, pc, loaded, persisted, ord, graph,
          inputs, outputs, invoked, result, pre, base, last, prev>>

NodeIds == 1..MaxNodes

Range(s) == {s[i] : i \in 1..Len(s)}

-----------------------------------------------------------------------------
(* Lua values and tables *)

Nil == [t |-> "nil"]
Num(n) == [t |-> "number", n |-> n]
Str(s) == [t |-> "string", s |-> s]

\* Every name a table key can take in the model.
Names == {"x", "s", "out", "value", "y", "z", "shown", "c"}

\* lua.create_table(): no key is set (a get of an unset key is nil).
create_table == [k \in Names |-> Nil]

\* LuaTable::set: setting nil removes the key.
table_set(t, k, v) == [t EXCEPT ![k] = v]

\* An empty map (BTreeMap::new()) and the insertion of one entry.
EmptyMap == [n \in {} |-> create_table]
Put(m, k, v) == [n \in DOMAIN m \cup {k} |-> IF n = k THEN v ELSE m[n]]

-----------------------------------------------------------------------------
(* Control and its numeric accessors (node.rs) *)

Slider(v, lo, hi) == [kind |-> "Slider", value |-> v, min |-> lo, max |-> hi]
ShowFloat(v) == [kind |-> "ShowFloat", value |-> v]

\* Numbers are counted in units of half an f32 step: a Lua number (f64) is
\* any integer, an f32 is an even one.  f64 -> f32 rounds to nearest, ties
\* to the even mantissa (a multiple of 4 here).
IsF32(n) == n % 2 = 0
ToF32(n) == IF n % 2 = 0 THEN n ELSE IF (n + 1) % 4 = 0 THEN n + 1 ELSE n - 1

\* f32::from_lua: numbers are narrowed, anything else in the model (nil, a
\* non-numeric string) is a conversion error.
f32_from_lua(v) ==
    IF v.t = "number" THEN [ok |-> TRUE, value |-> ToF32(v.n)]
    ELSE [ok |-> FALSE, value |-> 0]

\* get_value that ignores the stored value.
get_value_zero(control) == Num(0)

\* Control::get_value: value.into_lua (f32 -> f64 is exact).
get_value(control) == Num(control.value)

\* set_value that puts a new slider in the control's place.
set_value_slider(control, v) == Slider(f32_from_lua(v).value, 0, 0)

\* Control::set_value on a value that converts: only the value field changes.
set_value(control, v) == [control EXCEPT !.value = f32_from_lua(v).value]

-----------------------------------------------------------------------------
(* Prototypes *)

Float == "Float"
Port(n) == [name |-> n, pin |-> Float]
Ctl(n, c) == [name |-> n, control |-> c]

\* NodePrototype::unknown
unknown(id) ==
    [id |-> id, title |-> "Unknown", inputs |-> <<>>, outputs |-> <<>>,
     controls |-> <<>>, run |-> "unknown"]

\* The prototypes the scripts register (register_node), keyed by id.
Scripts ==
    [const |->
        [id |-> "const", title |-> "Const", inputs |-> <<>>,
         outputs |-> <<Port("x"), Port("s")>>, controls |-> <<>>,
         run |-> "const"],
     slider |->
        [id |-> "slider", title |-> "Slider", inputs |-> <<>>,
         outputs |-> <<Port("out")>>,
         controls |-> <<Ctl("value", Slider(2, 0, 2))>>,
         run |-> "slider"],
     double |->
        [id |-> "double", title |-> "Double", inputs |-> <<Port("y")>>,
         outputs |-> <<Port("z")>>, controls |-> <<>>,
         run |-> "double"],
     show |->
        [id |-> "show", title |-> "Show", inputs |-> <<Port("y")>>,
         outputs |-> <<>>, controls |-> <<Ctl("shown", ShowFloat(2))>>,
         run |-> "show"],
     echo |->
        [id |-> "echo", title |-> "Echo", inputs |-> <<Port("y")>>,
         outputs |-> <<Port("y")>>, controls |-> <<Ctl("c", ShowFloat(2))>>,
         run |-> "echo"]]

-----------------------------------------------------------------------------
(* register_node (script.rs 75-128) *)

\* The table a script passes to register_node; name stands for the segments
\* of name.split("::").
Args(id, name, ins, outs, controls, behaviour) ==
    [id |-> id, name |-> name, title |-> id, inputs |-> ins,
     outputs |-> outs, controls |-> controls, run |-> behaviour]

\* The node a behaviour registers while it runs.
Late == Args("late", <<"A", "Late">>, <<>>, <<>>, <<Ctl("c", ShowFloat(2))>>, "const")

\* The register_node calls the scripts of the scripts directory may make.
ScriptCalls ==
    {Args("a", <<"A">>, <<Port("y")>>, <<Port("z")>>, <<Ctl("c", ShowFloat(2))>>, "echo"),
     Args("b", <<"B">>, <<Port("y")>>, <<>>, <<Ctl("y", ShowFloat(2))>>, "echo"),
     Args("d", <<"D">>, <<>>, <<Port("z")>>, <<Ctl("c", ShowFloat(0)), Ctl("z", ShowFloat(2))>>, "echo"),
     Args("e", <<"A", "E">>, <<>>, <<Port("x")>>, <<>>, "const"),
     Args("f", <<"A">>, <<>>, <<>>, <<Ctl("shown", ShowFloat(2))>>, "show"),
     Args("reg", <<"M", "Reg">>, <<>>, <<>>, <<>>, "reg")}

\* IndexMap::keys / contains_key
keys(m) == {m[i].name : i \in DOMAIN m}

\* script.rs 89-96 without the test against the outputs.
collides_inputs_only(args) == keys(args.controls) \cap keys(args.inputs) # {}

\* script.rs 89-96: a control key that is also an input or an output.
collides(args) ==
    keys(args.controls) \cap (keys(args.inputs) \cup keys(args.outputs)) # {}

\* script.rs 98-109
NodePrototype(args) ==
    [id |-> args.id, title |-> args.title, inputs |-> args.inputs,
     outputs |-> args.outputs, controls |-> args.controls, run |-> args.run]

\* NodeEntry; the nested maps of CATEGORY are kept as one map from the path
\* of an entry to the entry, a Category's children being the paths one
\* segment longer.
NodeEntry_Node(p) == [kind |-> "Node", prototype |-> p]
NodeEntry_Category == [kind |-> "Category"]

IsPrefix(p, q) == Len(p) <= Len(q) /\ SubSeq(q, 1, Len(p)) = p

\* BTreeMap::insert at a path: the entry there, and with it everything
\* below it, is replaced.
category_insert(tree, path, entry) ==
    [q \in {r \in DOMAIN tree : ~IsPrefix(path, r)} \cup {path} |->
        IF q = path THEN entry ELSE tree[q]]

\* script.rs 116-125: descend through the segments before the last, making
\* the categories that are missing and stopping at an entry that is a node;
\* then insert the node under the last segment.
RECURSIVE category_walk(_, _, _, _)
category_walk(tree, name, p, k) ==
    IF k >= Len(name)
    THEN [ok |-> TRUE, tree |-> category_insert(tree, name, NodeEntry_Node(p))]
    ELSE LET path == SubSeq(name, 1, k)
             made == IF path \in DOMAIN tree THEN tree
                     ELSE category_insert(tree, path, NodeEntry_Category)
         IN  IF made[path].kind = "Node" THEN [ok |-> FALSE, tree |-> made]
             ELSE category_walk(made, name, p, k + 1)

\* register_node as a function of the two maps: "panic" is the panic! of
\* lines 91/94, "category conflict" the error of line 121.
register(registry, category, args) ==
    IF collides(args)
    THEN [outcome |-> "panic", registry |-> registry, category |-> category]
    ELSE LET w == category_walk(category, args.name, NodePrototype(args), 1)
         IN  [outcome |-> IF w.ok THEN "Ok" ELSE "category conflict",
              registry |-> Put(registry, args.id, NodePrototype(args)),
              category |-> w.tree]

\* The record kept of a register_node call.
Registered(args, phase) ==
    <<[args |-> args, phase |-> phase,
       outcome |-> register(REGISTRY, CATEGORY, args).outcome,
       registry |-> REGISTRY, category |-> CATEGORY]>>

\* The register_node calls a behaviour makes when it is invoked
\* (register_node stays a global of the Lua state, script.rs 63).
behaviour_calls(run) == IF run = "reg" THEN <<Late>> ELSE <<>>

\* init_lua: a script calls register_node.  A panic ends the process; an
\* error ends it too (init_lua fails and App::create panics) unless the
\* script caught it.
register_node(args) ==
    /\ pc = "init"
    /\ LET r == register(REGISTRY, CATEGORY, args)
       IN  /\ REGISTRY' = r.registry
           /\ CATEGORY' = r.category
           /\ reg' = Registered(args, "init")
           /\ \/ r.outcome # "panic" /\ pc' = "init"
              \/ r.outcome # "Ok" /\ pc' = "exit"
    /\ UNCHANGED <<snarl, wires, loaded, persisted, ord, graph, inputs, outputs,
                   invoked, result, pre, base, last, prev>>

\* init_lua returns; App::create goes on to read the persisted state.
init_lua ==
    /\ pc = "init"
    /\ pc' = "create"
    /\ UNCHANGED <<REGISTRY, CATEGORY, reg, snarl, wires, loaded, persisted, ord,
                   graph, inputs, outputs, invoked, result, pre, base, last, prev>>

\* The menu tree the registration of Scripts leaves: every script is
\* registered under its title.
Menu ==
    [path \in {<<Scripts[id].title>> : id \in DOMAIN Scripts} |->
        NodeEntry_Node(Scripts[CHOOSE id \in DOMAIN Scripts : Scripts[id].title = path[1]])]

-----------------------------------------------------------------------------
(* The behaviours *)

Ok(t) == [ok |-> TRUE, table |-> t, err |-> "none"]
Err(e) == [ok |-> FALSE, table |-> create_table, err |-> e]

\* The behaviour callables: (prototype.run)(lua, input).
Call(run, input) ==
    CASE run = "const" ->
            Ok(table_set(table_set(create_table, "x", Num(1)), "s", Str("abc")))
      [] run = "slider" ->
            Ok(table_set(create_table, "out", input["value"]))
      [] run = "double" ->
            IF input["y"].t = "number"
            THEN Ok(table_set(create_table, "z", Num(2 * input["y"].n)))
            ELSE Err("runtime error")
      [] run = "show" ->
            Ok(table_set(create_table, "shown",
                         IF input["y"] = Nil THEN Num(1) ELSE input["y"]))
      [] run = "echo" -> Ok(input)
      [] run = "reg" ->
            IF register(REGISTRY, CATEGORY, Late).outcome = "Ok"
            THEN Ok(create_table) ELSE Err("category conflict")
      [] OTHER -> Err("unknown node type")

-----------------------------------------------------------------------------
(* Node (node.rs) *)

\* create that takes the data of a node of the graph that has the prototype.
create_shared(prototype) ==
    [prototype |-> prototype,
     data |-> IF \E n \in DOMAIN snarl : snarl[n].prototype = prototype
              THEN snarl[CHOOSE n \in DOMAIN snarl : snarl[n].prototype = prototype].data
              ELSE prototype.controls]

\* NodePrototype::create
create(prototype) == [prototype |-> prototype, data |-> prototype.controls]

\* Node::find_factory: registry.get(&id).cloned()
find_factory(id) ==
    IF id \in DOMAIN REGISTRY THEN <<REGISTRY[id]>> ELSE <<>>

\* from_data that gives a node of a registered id the prototype's defaults.
from_data_defaults(id, data) ==
    IF find_factory(id) = <<>>
    THEN [data |-> data, prototype |-> unknown(id)]
    ELSE create(find_factory(id)[1])

\* Node::from_data
from_data(id, data) ==
    IF find_factory(id) = <<>>
    THEN [data |-> data, prototype |-> unknown(id)]
    ELSE [data |-> data, prototype |-> find_factory(id)[1]]

\* Serialize for Node
serialize(node) == [id |-> node.prototype.id, controls |-> node.data]

\* Node::run with the behaviour's failure swallowed into an empty table.
Node_run_swallow(node, input) ==
    IF Call(node.prototype.run, input).ok
    THEN Call(node.prototype.run, input) ELSE Ok(create_table)

\* Node::run
Node_run(node, input) == Call(node.prototype.run, input)

\* Node::input_name / Node::output_name: get_index(index).unwrap() on a
\* 0-based index; "panic" stands for the unwrap of None.
input_name(node, index) ==
    IF index + 1 \in DOMAIN node.prototype.inputs
    THEN node.prototype.inputs[index + 1].name ELSE "panic"
output_name(node, index) ==
    IF index + 1 \in DOMAIN node.prototype.outputs
    THEN node.prototype.outputs[index + 1].name ELSE "panic"

-----------------------------------------------------------------------------
(* Graph builder and petgraph::algo::toposort, as engine::run uses them *)

Rev(s) == [i \in 1..Len(s) |-> s[Len(s) + 1 - i]]

\* snarl.node_ids(): the slab's keys in ascending order.
RECURSIVE node_ids_from(_, _)
node_ids_from(nodes, k) ==
    IF k > MaxNodes THEN <<>>
    ELSE (IF k \in DOMAIN nodes THEN <<k>> ELSE <<>>) \o node_ids_from(nodes, k + 1)

\* node_ids whose direction turns around once a run has been made.
node_ids_rotating(nodes) ==
    IF result = "none" THEN node_ids_from(nodes, 1) ELSE Rev(node_ids_from(nodes, 1))

node_ids(nodes) == node_ids_from(nodes, 1)

\* One graph.add_edge per wire, in the wires' iteration order.
add_edge(nodes, wire) ==
    [source |-> wire.out_node, target |-> wire.in_node,
     out_name |-> output_name(nodes[wire.out_node], wire.output),
     in_name |-> input_name(nodes[wire.in_node], wire.input)]
build_graph(nodes, ws) == [i \in 1..Len(ws) |-> add_edge(nodes, ws[i])]

\* A port index that names no port: the unwrap in output_name/input_name.
build_panics(nodes, ws) ==
    \E i \in 1..Len(ws) :
        LET e == add_edge(nodes, ws[i])
        IN  e.out_name = "panic" \/ e.in_name = "panic"

\* graph.edges_directed(node, Outgoing): newest edge first.
IsFrom(n, e) == e.source = n
IsInto(n, e) == e.target = n
edges_directed(g, n) == Rev(SelectSeq(g, LAMBDA e : IsFrom(n, e)))
\* g.neighbors(n) and Reversed(g).neighbors(n)
neighbors(g, n) ==
    LET es == edges_directed(g, n) IN [i \in 1..Len(es) |-> es[i].target]
neighbors_rev(g, n) ==
    LET es == Rev(SelectSeq(g, LAMBDA e : IsInto(n, e)))
    IN  [i \in 1..Len(es) |-> es[i].source]

NotIn(S, s) == SelectSeq(s, LAMBDA x : x \notin S)

\* First pass of toposort: the inner while loop over dfs.stack.
RECURSIVE dfs_stack(_, _)
dfs_stack(g, st) ==
    IF st.cycle \/ st.stack = <<>> THEN st
    ELSE LET nx == st.stack[Len(st.stack)] IN
         IF nx \notin st.discovered
         THEN LET succs == neighbors(g, nx)
                  disc == st.discovered \cup {nx}
              IN  IF nx \in Range(succs)
                  THEN [st EXCEPT !.cycle = TRUE]
                  ELSE dfs_stack(g, [st EXCEPT !.discovered = disc,
                                               !.stack = @ \o NotIn(disc, succs)])
         ELSE dfs_stack(g, [st EXCEPT
                  !.stack = SubSeq(@, 1, Len(@) - 1),
                  !.finished = @ \cup {nx},
                  !.finish_stack = IF nx \in st.finished THEN @ ELSE Append(@, nx)])

\* First pass: for i in g.node_identifiers()
RECURSIVE dfs_roots(_, _, _)
dfs_roots(g, ids, st) ==
    IF st.cycle \/ ids = <<>> THEN st
    ELSE IF ids[1] \in st.discovered THEN dfs_roots(g, Tail(ids), st)
    ELSE dfs_roots(g, Tail(ids), dfs_stack(g, [st EXCEPT !.stack = <<ids[1]>>]))

\* Second pass: from each vertex of the order, a search of the reversed graph
\* may discover that vertex only.
RECURSIVE finds_cycle(_, _, _)
finds_cycle(g, order, discovered) ==
    IF order = <<>> THEN FALSE
    ELSE LET i == order[1] IN
         IF i \in discovered THEN finds_cycle(g, Tail(order), discovered)
         ELSE IF NotIn(discovered \cup {i}, neighbors_rev(g, i)) # <<>> THEN TRUE
         ELSE finds_cycle(g, Tail(order), discovered \cup {i})

\* toposort without finish_stack.reverse(): the vertices in finishing order.
toposort_postorder(ids, g) ==
    LET st == dfs_roots(g, ids, [stack |-> <<>>, discovered |-> {}, finished |-> {},
                                 finish_stack |-> <<>>, cycle |-> FALSE])
    IN  IF st.cycle \/ finds_cycle(g, Rev(st.finish_stack), {})
        THEN [ok |-> FALSE, order |-> <<>>]
        ELSE [ok |-> TRUE, order |-> st.finish_stack]

\* petgraph::algo::toposort(&graph, None)
toposort(ids, g) ==
    LET st == dfs_roots(g, ids, [stack |-> <<>>, discovered |-> {}, finished |-> {},
                                 finish_stack |-> <<>>, cycle |-> FALSE])
        order == Rev(st.finish_stack)
    IN  IF st.cycle \/ finds_cycle(g, order, {})
        THEN [ok |-> FALSE, order |-> <<>>]
        ELSE [ok |-> TRUE, order |-> order]

-----------------------------------------------------------------------------
(* engine::run *)

\* entry that hands out a table already in the map instead of a new one.
entry_shared(m, node) ==
    IF node \in DOMAIN m THEN m[node]
    ELSE IF DOMAIN m # {} THEN m[CHOOSE k \in DOMAIN m : TRUE]
    ELSE create_table

\* inputs.entry(node): the table already there, or a new one.
entry(m, node) == IF node \in DOMAIN m THEN m[node] ELSE create_table

\* set_controls that leaves a key alone that the table already has.
RECURSIVE set_controls_keep(_, _, _)
set_controls_keep(input, data, i) ==
    IF i > Len(data) THEN input
    ELSE set_controls_keep(
             IF input[data[i].name] # Nil THEN input
             ELSE table_set(input, data[i].name, get_value(data[i].control)),
             data, i + 1)

\* engine.rs 43-45: every control value is written into the input table.
RECURSIVE set_controls(_, _, _)
set_controls(input, data, i) ==
    IF i > Len(data) THEN input
    ELSE set_controls(table_set(input, data[i].name, get_value(data[i].control)),
                      data, i + 1)

\* write_back that clears a control whose output is nil instead of keeping it.
RECURSIVE write_back_clear(_, _, _)
write_back_clear(data, output, i) ==
    IF i > Len(data) THEN [ok |-> TRUE, data |-> data]
    ELSE LET value == output[data[i].name] IN
         IF value = Nil
         THEN write_back_clear([data EXCEPT ![i].control.value = 0], output, i + 1)
         ELSE IF ~f32_from_lua(value).ok THEN [ok |-> FALSE, data |-> data]
         ELSE write_back_clear([data EXCEPT ![i].control = set_value(@, value)],
                               output, i + 1)

\* engine.rs 49-54: write the non-nil outputs named like a control back into
\* the node's data, in order, stopping at the first conversion error.
RECURSIVE write_back(_, _, _)
write_back(data, output, i) ==
    IF i > Len(data) THEN [ok |-> TRUE, data |-> data]
    ELSE LET value == output[data[i].name] IN
         IF value = Nil THEN write_back(data, output, i + 1)
         ELSE IF ~f32_from_lua(value).ok THEN [ok |-> FALSE, data |-> data]
         ELSE write_back([data EXCEPT ![i].control = set_value(@, value)],
                         output, i + 1)

\* forward that stops after the first outgoing edge.
forward_first(m, es, output, i) ==
    IF i > Len(es) THEN m
    ELSE Put(m, es[i].target,
             table_set(entry(m, es[i].target), es[i].in_name, output[es[i].out_name]))

\* engine.rs 56-67: forward the outputs along the outgoing edges.
RECURSIVE forward(_, _, _, _)
forward(m, es, output, i) ==
    IF i > Len(es) THEN m
    ELSE forward(Put(m, es[i].target,
                     table_set(entry(m, es[i].target), es[i].in_name,
                               output[es[i].out_name])),
                 es, output, i + 1)

ResetRun ==
    /\ ord' = <<>>
    /\ graph' = <<>>
    /\ inputs' = EmptyMap
    /\ outputs' = EmptyMap
    /\ invoked' = <<>>
    /\ result' = "none"
    /\ pre' = snarl'
    /\ base' = snarl'
    /\ last' = <<>>
    /\ prev' = <<>>

\* engine.rs 13-35: build the graph, sort it, start the loop.
run ==
    /\ pc = "update"
    /\ UNCHANGED <<REGISTRY, CATEGORY, reg, snarl, wires, loaded, persisted>>
    /\ inputs' = EmptyMap
    /\ outputs' = EmptyMap
    /\ invoked' = <<>>
    /\ pre' = snarl
    /\ base' = IF result = "Ok" THEN base ELSE snarl
    /\ last' = IF result = "Ok" THEN <<inputs>> ELSE <<>>
    /\ prev' = IF result = "none" THEN <<>>
               ELSE <<[pre |-> pre, ord |-> ord, invoked |-> invoked,
                       snarl |-> snarl, result |-> result]>>
    /\ IF build_panics(snarl, wires)
       THEN pc' = "exit" /\ result' = "panic" /\ ord' = <<>> /\ graph' = <<>>
       ELSE LET g == build_graph(snarl, wires)
                sorted == toposort(node_ids(snarl), g)
            IN  /\ graph' = g
                /\ ord' = sorted.order
                /\ IF ~sorted.ok THEN pc' = "update" /\ result' = "cycle detected"
                   ELSE IF sorted.order = <<>> THEN pc' = "update" /\ result' = "Ok"
                   ELSE pc' = "run" /\ result' = "none"

\* engine.rs 36-68: one iteration of the loop over ord.
run_node ==
    /\ pc = "run"
    /\ UNCHANGED <<wires, loaded, persisted, ord, graph, pre, base, last, prev>>
    /\ LET node == ord[Len(invoked) + 1]
           input == set_controls(entry(inputs, node), snarl[node].data, 1)
           r == Node_run(snarl[node], input)
           wb == write_back(snarl[node].data, r.table, 1)
           calls == behaviour_calls(snarl[node].prototype.run)
       IN  /\ invoked' = Append(invoked, node)
           /\ IF calls = <<>>
              THEN UNCHANGED <<REGISTRY, CATEGORY, reg>>
              ELSE /\ REGISTRY' = register(REGISTRY, CATEGORY, calls[1]).registry
                   /\ CATEGORY' = register(REGISTRY, CATEGORY, calls[1]).category
                   /\ reg' = Registered(calls[1], "run")
           /\ IF ~r.ok
              THEN /\ inputs' = Put(inputs, node, input)
                   /\ UNCHANGED <<snarl, outputs>>
                   /\ result' = r.err
                   /\ pc' = "update"
              ELSE /\ outputs' = Put(outputs, node, r.table)
                   /\ snarl' = [snarl EXCEPT ![node].data = wb.data]
                   /\ IF ~wb.ok
                      THEN /\ inputs' = Put(inputs, node, input)
                           /\ result' = "conversion error"
                           /\ pc' = "update"
                      ELSE /\ inputs' = forward(Put(inputs, node, input),
                                                edges_directed(graph, node),
                                                r.table, 1)
                           /\ IF Len(invoked) + 1 = Len(ord)
                              THEN pc' = "update" /\ result' = "Ok"
                              ELSE pc' = "run" /\ result' = "none"

-----------------------------------------------------------------------------
(* App::create: the persisted state is deserialized (main.rs 40-50) *)

\* Ids and control mappings a persisted node may carry; the scripts may have
\* changed since the state was saved.
PersistedIds == {"echo", "gone"}
PersistedData == {<<Ctl("c", ShowFloat(0))>>, <<Ctl("y", ShowFloat(2))>>}

\* Port indexes a persisted wire may carry.
PersistedOutputs == {0}
PersistedInputs == {0}

Wire(a, o, b, i) == [out_node |-> a, output |-> o, in_node |-> b, input |-> i]

\* Deserialize for Node: Node::from_data(id, controls)
load_node(n, id, data) ==
    /\ pc = "create"
    /\ n \notin DOMAIN snarl
    /\ loaded < MaxLoaded
    /\ snarl' = Put(snarl, n, from_data(id, data))
    /\ loaded' = loaded + 1
    /\ persisted' = Put(persisted, n, [id |-> id, controls |-> data])
    /\ UNCHANGED <<REGISTRY, CATEGORY, reg, wires, pc>>
    /\ ResetRun

\* A wire of the persisted state; the editor that saved it kept one wire
\* per input pin.
load_wire(w) ==
    /\ pc = "create"
    /\ w.out_node \in DOMAIN snarl /\ w.in_node \in DOMAIN snarl
    /\ Len(wires) < MaxWires
    /\ \A k \in 1..Len(wires) :
          ~(wires[k].in_node = w.in_node /\ wires[k].input = w.input)
    /\ \E k \in 0..Len(wires) :
          wires' = SubSeq(wires, 1, k) \o <<w>> \o SubSeq(wires, k + 1, Len(wires))
    /\ UNCHANGED <<REGISTRY, CATEGORY, reg, snarl, pc, loaded, persisted>>
    /\ ResetRun

\* App::create returns; the UI loop (App::update) begins.
create_done ==
    /\ pc = "create"
    /\ pc' = "update"
    /\ persisted' = EmptyMap
    /\ UNCHANGED <<REGISTRY, CATEGORY, reg, snarl, wires, loaded, ord, graph, inputs,
                   outputs, invoked, result, pre, base, last, prev>>

-----------------------------------------------------------------------------
(* The editor (Viewer, main.rs) *)

\* show_graph_menu: a node entry of the CATEGORY menu is clicked,
\* snarl.insert_node(pos, prototype.create())
insert_node(n, path) ==
    /\ pc = "update"
    /\ n \notin DOMAIN snarl
    /\ path \in DOMAIN CATEGORY
    /\ CATEGORY[path].kind = "Node"
    /\ snarl' = Put(snarl, n, create(CATEGORY[path].prototype))
    /\ UNCHANGED <<REGISTRY, CATEGORY, reg, wires, pc, loaded, persisted>>
    /\ ResetRun

\* show_node_menu, "Clone": snarl.insert_node(pos, node.clone())
clone_node(n, m) ==
    /\ pc = "update"
    /\ n \in DOMAIN snarl
    /\ m \notin DOMAIN snarl
    /\ snarl' = Put(snarl, m, snarl[n])
    /\ UNCHANGED <<REGISTRY, CATEGORY, reg, wires, pc, loaded, persisted>>
    /\ ResetRun

Touches(n, w) == w.out_node = n \/ w.in_node = n

\* show_node_menu, "Delete": snarl.remove_node(node) drops the node's wires
remove_node(n) ==
    /\ pc = "update"
    /\ n \in DOMAIN snarl
    /\ snarl' = [k \in DOMAIN snarl \ {n} |-> snarl[k]]
    /\ wires' = SelectSeq(wires, LAMBDA w : ~Touches(n, w))
    /\ UNCHANGED <<REGISTRY, CATEGORY, reg, pc, loaded, persisted>>
    /\ ResetRun

\* The pins the editor shows for a node: Viewer::outputs / Viewer::inputs
\* give their number, the pins are indexed from 0.
OutPins(n) == {k - 1 : k \in DOMAIN snarl[n].prototype.outputs}
InPins(n) == {k - 1 : k \in DOMAIN snarl[n].prototype.inputs}

Into(n, i, w) == w.in_node = n /\ w.input = i

\* connect that leaves the wires already into `to` in place.
connect_keep(a, o, b, i) ==
    /\ pc = "update"
    /\ a \in DOMAIN snarl /\ b \in DOMAIN snarl
    /\ o \in OutPins(a)
    /\ i \in InPins(b)
    /\ snarl[a].prototype.outputs[o + 1].pin = snarl[b].prototype.inputs[i + 1].pin
    /\ Len(wires) < MaxWires
    /\ \E k \in 0..Len(wires) :
          wires' = SubSeq(wires, 1, k) \o <<Wire(a, o, b, i)>>
                       \o SubSeq(wires, k + 1, Len(wires))
    /\ UNCHANGED <<REGISTRY, CATEGORY, reg, snarl, pc, loaded, persisted>>
    /\ ResetRun

\* Viewer::connect(from, to): pins of the same kind only; every wire already
\* into `to` is disconnected, then from -> to is connected.  The new wire
\* takes any place in the HashSet's iteration order.
connect(a, o, b, i) ==
    /\ pc = "update"
    /\ a \in DOMAIN snarl /\ b \in DOMAIN snarl
    /\ o \in OutPins(a)
    /\ i \in InPins(b)
    /\ LET kept == SelectSeq(wires, LAMBDA w : ~Into(b, i, w))
       IN  IF snarl[a].prototype.outputs[o + 1].pin # snarl[b].prototype.inputs[i + 1].pin
           THEN wires' = wires
           ELSE /\ Len(kept) < MaxWires
                /\ \E k \in 0..Len(kept) :
                      wires' = SubSeq(kept, 1, k) \o <<Wire(a, o, b, i)>>
                                   \o SubSeq(kept, k + 1, Len(kept))
    /\ wires' # wires
    /\ UNCHANGED <<REGISTRY, CATEGORY, reg, snarl, pc, loaded, persisted>>
    /\ ResetRun

\* The f32 values egui::Slider::new(value, min..=max) lets the user choose;
\* a ShowFloat is a label and cannot be edited.
SliderValues(control) ==
    IF control.kind = "Slider"
    THEN {v \in control.min .. control.max : IsF32(v)}
    ELSE {}

\* Viewer::show_body, Control::update: the user drags a slider
update(n, i, v) ==
    /\ pc = "update"
    /\ n \in DOMAIN snarl
    /\ i \in DOMAIN snarl[n].data
    /\ v \in SliderValues(snarl[n].data[i].control)
    /\ v # snarl[n].data[i].control.value
    /\ snarl' = [snarl EXCEPT ![n].data[i].control.value = v]
    /\ UNCHANGED <<REGISTRY, CATEGORY, reg, wires, pc, loaded, persisted>>
    /\ ResetRun

-----------------------------------------------------------------------------

\* The host after init_lua has loaded the scripts.
Init ==
    /\ REGISTRY = Scripts
    /\ CATEGORY = Menu
    /\ reg = <<>>
    /\ snarl = EmptyMap
    /\ wires = <<>>
    /\ pc = "create"
    /\ loaded = 0
    /\ persisted = EmptyMap
    /\ ord = <<>>
    /\ graph = <<>>
    /\ inputs = EmptyMap
    /\ outputs = EmptyMap
    /\ invoked = <<>>
    /\ result = "none"
    /\ pre = EmptyMap
    /\ base = EmptyMap
    /\ last = <<>>
    /\ prev = <<>>

Next ==
    \/ \E n \in NodeIds, id \in PersistedIds, data \in PersistedData :
          load_node(n, id, data)
    \/ \E a, b \in NodeIds, o \in PersistedOutputs, i \in PersistedInputs :
          load_wire(Wire(a, o, b, i))
    \/ create_done
    \/ \E n \in NodeIds, path \in DOMAIN CATEGORY : insert_node(n, path)
    \/ \E n, m \in NodeIds : clone_node(n, m)
    \/ \E n \in NodeIds : remove_node(n)
    \/ \E a, b \in DOMAIN snarl :
          \E o \in OutPins(a), i \in InPins(b) : connect(a, o, b, i)
    \/ \E n \in DOMAIN snarl : \E i \in DOMAIN snarl[n].data :
          \E v \in SliderValues(snarl[n].data[i].control) : update(n, i, v)
    \/ run
    \/ run_node

Spec == Init /\ [][Next]_vars

\* The host from its start: init_lua runs the scripts, which register the
\* nodes; there is no persisted state; the editor inserts nodes and runs.
InitReg ==
    /\ REGISTRY = EmptyMap
    /\ CATEGORY = EmptyMap
    /\ reg = <<>>
    /\ snarl = EmptyMap
    /\ wires = <<>>
    /\ pc = "init"
    /\ loaded = 0
    /\ persisted = EmptyMap
    /\ ord = <<>>
    /\ graph = <<>>
    /\ inputs = EmptyMap
    /\ outputs = EmptyMap
    /\ invoked = <<>>
    /\ result = "none"
    /\ pre = EmptyMap
    /\ base = EmptyMap
    /\ last = <<>>
    /\ prev = <<>>

NextReg ==
    \/ \E args \in ScriptCalls : register_node(args)
    \/ init_lua
    \/ create_done
    \/ \E n \in NodeIds, path \in DOMAIN CATEGORY : insert_node(n, path)
    \/ \E n \in NodeIds : remove_node(n)
    \/ run
    \/ run_node

SpecReg == InitReg /\ [][NextReg]_vars

-----------------------------------------------------------------------------
(* Vocabulary of the properties *)

\* A run has been started since the last edit.
Ran == pc \in {"run", "exit"} \/ result # "none"

\* Position of node n in the sequence of invocations (0: not invoked).
IndexIn(s, n) == IF \E k \in 1..Len(s) : s[k] = n
                 THEN CHOOSE k \in 1..Len(s) : s[k] = n ELSE 0

\* The nodes reachable from S along one or more wires.
Targets(S) == {wires[k].in_node : k \in {j \in 1..Len(wires) : wires[j].out_node \in S}}
RECURSIVE ReachFrom(_)
ReachFrom(S) == IF Targets(S) \subseteq S THEN S ELSE ReachFrom(S \cup Targets(S))
HasCycle == \E k \in 1..Len(wires) :
               wires[k].out_node \in ReachFrom({wires[k].in_node})

IsUnknown(n) == snarl[n].prototype.title = "Unknown"

\* C1: in every run, whenever the behaviour of the target node of a wire has
\* been invoked, the behaviour of the wire's source node was invoked before it.
C1_SourceBeforeTarget ==
    \A k \in 1..Len(invoked) : \A j \in 1..Len(wires) :
        wires[j].in_node = invoked[k]
            => \E i \in 1..(k - 1) : invoked[i] = wires[j].out_node

\* A completed run of a chain of three nodes whose wires go against the
\* order of the node ids.
C1_Witness ==
    /\ result = "Ok"
    /\ Len(invoked) = 3
    /\ Len(wires) = 2
    /\ \E j, k \in 1..Len(wires) :
          /\ wires[j].in_node = wires[k].out_node
          /\ wires[j].out_node > wires[j].in_node
          /\ wires[k].out_node > wires[k].in_node

\* C2: a run ends with the cycle error exactly when the wires contain a
\* directed cycle, and then no behaviour was invoked and no control changed.
C2_CycleErrorIffCycle ==
    /\ result = "cycle detected" => HasCycle /\ invoked = <<>> /\ snarl = pre
    /\ Ran /\ HasCycle => result = "cycle detected"

\* The same on graphs whose wires all name ports of their nodes.
C2_CycleErrorIffCycleNoPanic ==
    /\ result = "cycle detected" => HasCycle /\ invoked = <<>> /\ snarl = pre
    /\ Ran /\ HasCycle /\ ~build_panics(snarl, wires) => result = "cycle detected"
    /\ Ran /\ ~HasCycle => result # "cycle detected"

\* The name of the input port a wire ends in and of the output port it
\* starts from.
InName(w) == input_name(snarl[w.in_node], w.input)
OutName(w) == output_name(snarl[w.out_node], w.output)

ControlNames(n) == {snarl[n].data[i].name : i \in DOMAIN snarl[n].data}

\* C3: when the behaviour of a wire's target B is invoked and the behaviour
\* of its source A succeeded in this run, B's input record holds under the
\* wire's input name exactly what A returned under the wire's output name
\* (nothing when A returned nothing).
C3_WireDelivers ==
    \A k \in 1..Len(invoked) : \A j \in 1..Len(wires) :
        (wires[j].in_node = invoked[k] /\ wires[j].out_node \in DOMAIN outputs)
            => inputs[invoked[k]][InName(wires[j])]
                   = outputs[wires[j].out_node][OutName(wires[j])]

\* The same for the wires into an input port that no control of the target
\* is named like.
C3_WireDeliversUnlessControl ==
    \A k \in 1..Len(invoked) : \A j \in 1..Len(wires) :
        (/\ wires[j].in_node = invoked[k]
         /\ wires[j].out_node \in DOMAIN outputs
         /\ InName(wires[j]) \notin ControlNames(invoked[k]))
            => inputs[invoked[k]][InName(wires[j])]
                   = outputs[wires[j].out_node][OutName(wires[j])]

\* What the behaviour of node n returned under a name in this run (nil when
\* it did not return).
Returned(n, name) == IF n \in DOMAIN outputs THEN outputs[n][name] ELSE Nil

\* C4 as stated: a control differs from its pre-run value only if the
\* behaviour returned a non-nil value under its name, and then the stored
\* value equals the returned value.
C4_StoredEqualsReturned ==
    \A n \in DOMAIN snarl : \A i \in DOMAIN snarl[n].data :
        LET cur == snarl[n].data[i]
        IN  /\ cur # pre[n].data[i]
                => /\ Returned(n, cur.name) # Nil
                   /\ get_value(cur.control) = Returned(n, cur.name)
            /\ Returned(n, cur.name) = Nil => cur = pre[n].data[i]

\* C4, amended: a control differs from its pre-run value only if the
\* behaviour returned a non-nil value under its name, and then the stored
\* value is the returned number narrowed to f32 (nothing else of the control
\* changes); a control whose name was not returned keeps its pre-run value.
C4_StoredIsNarrowedReturned ==
    \A n \in DOMAIN snarl :
        /\ Len(snarl[n].data) = Len(pre[n].data)
        /\ \A i \in DOMAIN snarl[n].data :
              LET cur == snarl[n].data[i]
                  old == pre[n].data[i]
              IN  /\ cur # old
                      => /\ Returned(n, cur.name).t = "number"
                         /\ cur = [old EXCEPT !.control.value =
                                       ToF32(Returned(n, cur.name).n)]
                  /\ Returned(n, cur.name) = Nil => cur = old

\* A completed run in which one control took a narrowed value that is not
\* the returned number and another, not returned, kept its value.
C4_Witness ==
    /\ result = "Ok"
    /\ \E n \in DOMAIN snarl : \E i \in DOMAIN snarl[n].data :
          /\ snarl[n].data[i] # pre[n].data[i]
          /\ get_value(snarl[n].data[i].control) # Returned(n, snarl[n].data[i].name)
    /\ \E n \in DOMAIN snarl : \E i \in DOMAIN snarl[n].data :
          /\ n \in DOMAIN outputs
          /\ Returned(n, snarl[n].data[i].name) = Nil

\* The behaviour of node n failed on the input record it was passed.
Failed(n) == ~Call(snarl[n].prototype.run, inputs[n]).ok

\* C5: when the behaviour of an invoked node fails, the run ends there with
\* that error, the failing node's controls are as before the run, the nodes
\* invoked before it keep what was written into their controls, and the
\* nodes after it are not invoked and not changed.
C5_FailureStopsRun ==
    \A k \in 1..Len(invoked) :
        Failed(invoked[k]) =>
            /\ k = Len(invoked)
            /\ pc = "update"
            /\ result = Call(snarl[invoked[k]].prototype.run, inputs[invoked[k]]).err
            /\ snarl[invoked[k]] = pre[invoked[k]]
            /\ \A j \in 1..(k - 1) :
                  /\ invoked[j] \in DOMAIN outputs
                  /\ snarl[invoked[j]].data
                       = write_back(pre[invoked[j]].data, outputs[invoked[j]], 1).data
            /\ \A m \in DOMAIN snarl : m \notin Range(invoked) => snarl[m] = pre[m]

\* A run in which the first node wrote a control, the second failed and the
\* third was not invoked.
C5_Witness ==
    /\ Len(ord) = 3
    /\ Len(invoked) = 2
    /\ Failed(invoked[2])
    /\ snarl[invoked[1]] # pre[invoked[1]]

\* The wires that do not touch a node with the Unknown prototype.
KnownWires == SelectSeq(wires, LAMBDA w : ~IsUnknown(w.out_node) /\ ~IsUnknown(w.in_node))

\* C6: a node with the Unknown prototype does not make the run fail before
\* it is reached, and the run fails with the unknown-node error exactly when
\* that node's behaviour is invoked.
C6_UnknownFailsWhenInvoked ==
    \A u \in DOMAIN snarl :
        IsUnknown(u) =>
            /\ Ran /\ ~build_panics(snarl, KnownWires) => result # "panic"
            /\ u \in Range(invoked)
                  => /\ result = "unknown node type"
                     /\ invoked[Len(invoked)] = u
                     /\ pc = "update"
            /\ result = "unknown node type" => IsUnknown(invoked[Len(invoked)])

\* The same on graphs in which no wire is attached to an Unknown node.
C6_UnknownFailsWhenInvokedNoWire ==
    \A u \in DOMAIN snarl :
        IsUnknown(u) /\ KnownWires = wires =>
            /\ Ran /\ ~build_panics(snarl, KnownWires) => result # "panic"
            /\ u \in Range(invoked)
                  => /\ result = "unknown node type"
                     /\ invoked[Len(invoked)] = u
                     /\ pc = "update"
            /\ result = "unknown node type" => IsUnknown(invoked[Len(invoked)])

\* C7: while the persisted state is being deserialized, serializing the
\* node made from a persisted {id, controls} gives back that {id, controls},
\* whether or not the id is registered.
C7_ResolveRoundTrips ==
    \A n \in DOMAIN persisted :
        n \in DOMAIN snarl /\ serialize(snarl[n]) = persisted[n]

\* Two nodes are deserialized: one of an unregistered id with a control, one
\* of a registered id whose controls are not the prototype's.
C7_Witness ==
    \E n, m \in DOMAIN persisted :
        /\ persisted[n].id \notin DOMAIN REGISTRY
        /\ persisted[n].controls # <<>>
        /\ persisted[m].id \in DOMAIN REGISTRY
        /\ persisted[m].controls # REGISTRY[persisted[m].id].controls

\* C8: in a successful run every node was invoked exactly once, and every
\* value of a node's input record is the pre-invocation value of one of its
\* own controls or what a node invoked earlier returned on a wire into it.
C8_SuccessfulRunRecords ==
    result = "Ok" =>
        /\ Range(invoked) = DOMAIN snarl
        /\ Len(invoked) = Cardinality(DOMAIN snarl)
        /\ \A n \in DOMAIN snarl :
              /\ n \in DOMAIN inputs
              /\ \A key \in Names :
                    inputs[n][key] # Nil =>
                        \/ \E i \in DOMAIN pre[n].data :
                              /\ pre[n].data[i].name = key
                              /\ inputs[n][key] = get_value(pre[n].data[i].control)
                        \/ \E j \in 1..Len(wires) :
                              /\ wires[j].in_node = n
                              /\ InName(wires[j]) = key
                              /\ IndexIn(invoked, wires[j].out_node) > 0
                              /\ IndexIn(invoked, wires[j].out_node) < IndexIn(invoked, n)
                              /\ inputs[n][key]
                                   = outputs[wires[j].out_node][OutName(wires[j])]

\* A successful run of three nodes: an isolated one, and a wire that
\* delivered a value to a node that also has a control.
C8_Witness ==
    /\ result = "Ok"
    /\ Len(invoked) = 3
    /\ \E n \in DOMAIN snarl : \A j \in 1..Len(wires) : ~Touches(n, wires[j])
    /\ \E j \in 1..Len(wires) :
          /\ inputs[wires[j].in_node][InName(wires[j])] # Nil
          /\ snarl[wires[j].in_node].data # <<>>
          /\ InName(wires[j]) \notin ControlNames(wires[j].in_node)

\* The behaviour of node n returned and its outputs were forwarded.
Forwarded(n) ==
    /\ n \in DOMAIN outputs
    /\ ~(result = "conversion error" /\ invoked[Len(invoked)] = n)

\* A value delivered by wire w is in place: from the delivery until the
\* target is invoked, and after that unless a control of the target has the
\* input's name.
Delivered(w) ==
    (w.in_node \notin Range(invoked) \/ InName(w) \notin ControlNames(w.in_node))
        => /\ w.in_node \in DOMAIN inputs
           /\ inputs[w.in_node][InName(w)] = outputs[w.out_node][OutName(w)]

\* C9: two wires from the same output port both deliver, in the same run,
\* the value the source's behaviour returned under that output's name.
C9_FanOut ==
    \A j, k \in 1..Len(wires) :
        (/\ j # k
         /\ wires[j].out_node = wires[k].out_node
         /\ wires[j].output = wires[k].output
         /\ Forwarded(wires[j].out_node))
            => Delivered(wires[j]) /\ Delivered(wires[k])

\* A completed run in which one output delivered a number to two nodes.
C9_Witness ==
    /\ result = "Ok"
    /\ \E j, k \in 1..Len(wires) :
          /\ wires[j].out_node = wires[k].out_node
          /\ wires[j].output = wires[k].output
          /\ wires[j].in_node # wires[k].in_node
          /\ inputs[wires[j].in_node][InName(wires[j])].t = "number"
          /\ inputs[wires[j].in_node][InName(wires[j])]
               = inputs[wires[k].in_node][InName(wires[k])]

AllEcho == \A n \in DOMAIN snarl : snarl[n].prototype.run = "echo"

\* C10: when every node's behaviour is the echo, after each of any number
\* of consecutive runs every control has the value it had before the first
\* of them, and the input records (so what every wire delivered) are those of
\* the run before.
C10_EchoRunsChangeNothing ==
    AllEcho /\ result = "Ok" =>
        /\ snarl = base
        /\ last # <<>> => inputs = last[1]

\* The second of two consecutive runs of echo nodes, with a wire that
\* delivered a number.
C10_Witness ==
    /\ AllEcho
    /\ result = "Ok"
    /\ last # <<>>
    /\ \E j \in 1..Len(wires) :
          /\ wires[j].in_node # wires[j].out_node
          /\ outputs[wires[j].out_node][OutName(wires[j])].t = "number"

-----------------------------------------------------------------------------
(* Registration *)

\* An entry of the tree that is a node lies on the path: at one of the
\* segments before the last (Above) or anywhere on it, the last included.
LeafAbove(category, name) ==
    \E k \in 1..(Len(name) - 1) :
        /\ SubSeq(name, 1, k) \in DOMAIN category
        /\ category[SubSeq(name, 1, k)].kind = "Node"
LeafOnPath(category, name) ==
    \E k \in 1..Len(name) :
        /\ SubSeq(name, 1, k) \in DOMAIN category
        /\ category[SubSeq(name, 1, k)].kind = "Node"

\* C11: a register_node call fails when a control is named like an input or
\* an output, and when the name's path meets an entry of the category tree
\* that is a node.
C11_RegistrationFails ==
    reg # <<>> =>
        /\ collides(reg[1].args) => reg[1].outcome # "Ok"
        /\ LeafOnPath(reg[1].category, reg[1].args.name) => reg[1].outcome # "Ok"

\* The same when the node entry is met at a segment before the last; the
\* two failures are the panic and the category conflict.
C11_RegistrationFailsAbove ==
    reg # <<>> =>
        /\ collides(reg[1].args) <=> reg[1].outcome = "panic"
        /\ ~collides(reg[1].args) =>
              (LeafAbove(reg[1].category, reg[1].args.name)
                  <=> reg[1].outcome = "category conflict")

\* C12: after any sequence of register_node calls, failed ones included, no
\* prototype of the registry (and none of the menu) has a control named like
\* one of its inputs or outputs.
C12_NoControlNamedLikePort ==
    /\ \A id \in DOMAIN REGISTRY :
          /\ REGISTRY[id].id = id
          /\ keys(REGISTRY[id].controls)
                \cap (keys(REGISTRY[id].inputs) \cup keys(REGISTRY[id].outputs)) = {}
    /\ \A path \in DOMAIN CATEGORY :
          CATEGORY[path].kind = "Node" =>
              keys(CATEGORY[path].prototype.controls)
                 \cap (keys(CATEGORY[path].prototype.inputs)
                          \cup keys(CATEGORY[path].prototype.outputs)) = {}

\* A call whose second control is named like an output has just panicked,
\* after a call that failed on the category tree and one that succeeded.
C12_Witness ==
    /\ reg # <<>>
    /\ reg[1].outcome = "panic"
    /\ keys(reg[1].args.controls) \cap keys(reg[1].args.inputs) = {}
    /\ Cardinality(DOMAIN REGISTRY) >= 2
    /\ \E id \in DOMAIN REGISTRY :
          \A path \in DOMAIN CATEGORY :
              CATEGORY[path].kind = "Node" => CATEGORY[path].prototype.id # id

-----------------------------------------------------------------------------
(* Instances, wires, runs *)

\* A step of engine::run: the start of a run or one iteration of its loop.
RunStep == pc = "run" \/ (pc = "update" /\ (pc' # "update" \/ result' # "none"))

\* C13: a node made by instantiate starts with the default controls of its
\* prototype, which are the defaults the prototype was registered with; an
\* iteration of a run changes the data of the invoked node only, never
\* another node (a clone or a sibling of the same prototype), never a
\* node's prototype and never the prototypes of the menu.
C13_InstancesIsolated ==
    /\ [](\A n \in DOMAIN snarl :
            snarl[n].prototype.id \in DOMAIN Scripts
                => snarl[n].prototype = Scripts[snarl[n].prototype.id])
    /\ [][/\ \A n \in NodeIds : \A path \in DOMAIN CATEGORY :
                insert_node(n, path)
                    => /\ snarl'[n].data = snarl'[n].prototype.controls
                       /\ snarl'[n].prototype = Menu[path].prototype
          /\ RunStep =>
                /\ CATEGORY' = CATEGORY
                /\ DOMAIN snarl' = DOMAIN snarl
                /\ \A m \in DOMAIN snarl :
                      /\ snarl'[m].prototype = snarl[m].prototype
                      /\ (pc = "update" \/ m # ord[Len(invoked) + 1])
                            => snarl'[m] = snarl[m]]_vars

\* In a run, a node's control was written while another node of the same
\* prototype, not yet invoked, still has the prototype's defaults.
C13_Witness ==
    /\ pc = "run"
    /\ \E n, m \in DOMAIN snarl :
          /\ n # m
          /\ snarl[n].prototype = snarl[m].prototype
          /\ n \in Range(invoked)
          /\ m \notin Range(invoked)
          /\ snarl[n].data # pre[n].data
          /\ snarl[n].data # snarl[n].prototype.controls
          /\ snarl[m].data = snarl[m].prototype.controls

\* A wire joins an output pin and an input pin that exist and are of the
\* same Pin kind.
JoinsEqualPins(w) ==
    /\ w.out_node \in DOMAIN snarl /\ w.in_node \in DOMAIN snarl
    /\ w.output \in OutPins(w.out_node)
    /\ w.input \in InPins(w.in_node)
    /\ snarl[w.out_node].prototype.outputs[w.output + 1].pin
          = snarl[w.in_node].prototype.inputs[w.input + 1].pin

C16_ControlsInRecord ==
    \A k \in 1..Len(invoked) :
        /\ invoked[k] \in DOMAIN inputs
        /\ \A i \in DOMAIN pre[invoked[k]].data :
              inputs[invoked[k]][pre[invoked[k]].data[i].name]
                  = Num(pre[invoked[k]].data[i].control.value)

\* The second of two runs has ended, in which a node was invoked whose
\* control has the name of an input that a wire delivered another value to,
\* and a node whose control holds what the run before wrote.
C16_Witness ==
    /\ result = "Ok"
    /\ prev # <<>>
    /\ \E j \in 1..Len(wires) :
          /\ InName(wires[j]) \in ControlNames(wires[j].in_node)
          /\ outputs[wires[j].out_node][OutName(wires[j])].t = "number"
          /\ outputs[wires[j].out_node][OutName(wires[j])]
                # inputs[wires[j].in_node][InName(wires[j])]
    /\ \E n \in DOMAIN snarl : \E i \in DOMAIN snarl[n].data :
          /\ prev[1].pre[n].data[i] # pre[n].data[i]
          /\ inputs[n][pre[n].data[i].name] = Num(pre[n].data[i].control.value)

\* Two node maps differ in nothing but the numeric values of controls.
SameShape(a, b) ==
    /\ DOMAIN a = DOMAIN b
    /\ \A n \in DOMAIN a :
          /\ a[n].prototype = b[n].prototype
          /\ Len(a[n].data) = Len(b[n].data)
          /\ \A i \in DOMAIN a[n].data :
                [a[n].data[i] EXCEPT !.control.value = 0]
                    = [b[n].data[i] EXCEPT !.control.value = 0]

\* The names of an ordered map, in order.
KeySeq(m) == [i \in DOMAIN m |-> m[i].name]

\* C17: a step of a run, and so a whole run however it ends, leaves the
\* nodes, the wires, every node's prototype, the names and order of its
\* controls, each control's variant and a slider's min and max as they were;
\* and while every node was made by instantiate (or cloned from one that
\* was), its control names are those of its prototype.
C17_RunChangesValuesOnly ==
    /\ [](Ran => SameShape(pre, snarl))
    /\ [](loaded = 0 =>
            \A n \in DOMAIN snarl :
                KeySeq(snarl[n].data) = KeySeq(snarl[n].prototype.controls))
    /\ [][RunStep => wires' = wires /\ SameShape(snarl, snarl')]_vars

\* A run over instantiated nodes, one with a slider and a wire from it, has
\* failed after it wrote the control of an earlier node.
C17_Witness ==
    /\ loaded = 0
    /\ pc = "update"
    /\ result \notin {"none", "Ok"}
    /\ snarl # pre
    /\ Len(wires) = 1
    /\ \E i \in DOMAIN snarl[wires[1].out_node].data :
          snarl[wires[1].out_node].data[i].control.kind = "Slider"

\* C18: for every graph it is given, a loaded one with a wire at a node of
\* the Unknown prototype included, engine::run resolves every wire's port
\* names and ends by returning success or an error; it never panics.
C18_RunReturns ==
    /\ result # "panic"
    /\ Ran /\ pc = "update"
          => result \in {"Ok", "cycle detected", "runtime error",
                         "unknown node type", "conversion error"}
    /\ Ran => ~build_panics(snarl, wires)

\* The same on the graphs whose wires were all made by the editor's connect.
C18_RunReturnsOnEditorGraphs ==
    loaded = 0 =>
        /\ result # "panic"
        /\ Ran /\ pc = "update"
              => result \in {"Ok", "cycle detected", "runtime error",
                             "unknown node type", "conversion error"}
        /\ ~build_panics(snarl, wires)

-----------------------------------------------------------------------------
(* The registry *)

\* C19: a register_node call that failed has left REGISTRY and CATEGORY as
\* they were before the call.
C19_FailedRegistrationChangesNothing ==
    (reg # <<>> /\ reg[1].outcome # "Ok") =>
        /\ REGISTRY = reg[1].registry
        /\ CATEGORY = reg[1].category

\* The same for the calls that fail by the panic, and for the category tree
\* in every failed call.
C19_FailedRegistrationKeepsCategory ==
    (reg # <<>> /\ reg[1].outcome # "Ok") =>
        /\ CATEGORY = reg[1].category
        /\ reg[1].outcome = "panic" => REGISTRY = reg[1].registry

\* C20: once init_lua has returned, REGISTRY is not written: no register_node
\* call made later has changed it.
C20_RegistryReadOnlyAfterInit ==
    /\ (reg # <<>> /\ reg[1].phase # "init") => REGISTRY = reg[1].registry
    /\ pc \in {"update", "run"} => (reg = <<>> \/ reg[1].phase = "init")

\* With scripts whose behaviours make no register_node call, the registry
\* and the menu stay what init_lua left.
C20_RegistryKeptWithoutCalls ==
    REGISTRY = Scripts /\ CATEGORY = Menu /\ reg = <<>>

====
